---- MODULE Spec2Model ----
(***************************************************************************)
(* BeatBound vote ledger: POST /api/votes (CastVote) and                   *)
(* DELETE /api/votes/:submissionId (RetractVote) over the votes,           *)
(* submissions and challenges tables, with the challenge phase changes of  *)
(* the API.  Every awaited store statement or Redis publish is one atomic  *)
(* step (the handlers open no transaction, each statement autocommits);    *)
(* the synchronous code after an await belongs to the step of that await.  *)
(***************************************************************************)
EXTENDS Integers, Sequences, FiniteSets, Bags, TLC

\* ------------------------------------------------------------------ bounds

\* Number of vote requests (casts and retractions together) of one run.
MaxReq == 2

\* Number of live-feed requests of one run.
MaxConn == 2

\* Number of times the heartbeat interval of one connection fires.
MaxBeats == 1

\* Number of leaderboard requests of one run.
MaxBoard == 2

\* The row limit of the leaderboard query: .limit(50), scaled to the handful
\* of submission rows of a leaderboard run.
Limit == 3

Voters == {"v1", "v2"}

Challenges == {"c1", "c2"}

\* Submission rows of the initial database.
Subs == {"s1", "s2"}

\* An id that names no submission row.
NoSub == "s0"

SubIds == Subs \cup {NoSub}

\* Submission rows of the database of a leaderboard run: s1 in c1, the others
\* in c2 (one more than Limit).
BoardSubs == Subs \cup {"s3", "s4", "s5"}

\* An id that names no challenge row.
NoChallengeRow == "c0"

\* challenges.max_submissions, at its default.
MaxSubmissions == 100

\* The submission rows of the initial database of the submission runs.
InitialRows == {"s1"}

\* submissions.challengeId: immutable, set at creation.
SubChallenge(s) == IF s = "s1" THEN "c1" ELSE "c2"

ChallengeStatus == {"DRAFT", "ACTIVE", "VOTING", "ENDED", "CANCELLED"}

SubmissionStatus == {"PROCESSING", "READY", "FAILED", "DISQUALIFIED"}

\* ------------------------------------------------------------------ state

VARIABLES
    chExists,     \* challenges: the row exists
    chStatus,     \* challenges.status
    subExists,    \* submissions: the row exists
    subStatus,    \* submissions.status
    subDisq,      \* submissions.disqualified
    voteCount,    \* submissions.voteCount
    votes,        \* votes: number of rows per (userId, submissionId)
    votes0,       \* the votes table of the initial database
    published,    \* messages published on Redis, in publish order
    req,          \* the vote requests, a bag: handler position, locals, response
    suspended,    \* users.suspended
    conns,        \* the live-feed requests, a bag: handler position, subscriber, frames
    lreq,         \* the leaderboard requests, a bag: handler position, response
    submissionCount,  \* challenges.submissionCount
    sreq          \* the submission requests, a bag: handler position, response

vars == <<chExists, chStatus, subExists, subStatus, subDisq, voteCount,
          votes, votes0, published, req, suspended, conns,
          lreq, submissionCount, sreq>>

\* The leaderboard requests and what the submission routes keep.
auxVars == <<lreq, submissionCount, sreq>>

\* What no vote handler and no phase change touches.
sideVars == <<suspended, conns, auxVars>>

dbVars == <<chExists, chStatus, subExists, subStatus, subDisq, voteCount, votes>>

\* ----------------------------------------------------------------- errors

NotFoundError(resource) ==
    [name |-> "NotFoundError", statusCode |-> 404,
     message |-> resource \o " not found", code |-> ""]

BadRequestError(message) ==
    [name |-> "BadRequestError", statusCode |-> 400,
     message |-> message, code |-> ""]

\* What the postgres driver throws on a unique-index violation.
UniqueViolation ==
    [name |-> "PostgresError", statusCode |-> 0,
     message |-> "duplicate key value violates unique constraint", code |-> "23505"]

\* updatedSubmission.voteCount with no row returned by the UPDATE.
TypeError ==
    [name |-> "TypeError", statusCode |-> 0,
     message |-> "Cannot read properties of undefined", code |-> ""]

\* A store statement or a publish that rejects (connection lost, timeout).
StoreError ==
    [name |-> "Error", statusCode |-> 0,
     message |-> "store unavailable", code |-> ""]

IsApiError(err) == err.name \in {"NotFoundError", "BadRequestError"}

\* err.constructor.name.replace('Error', '')
ErrorKind(err) ==
    IF err.name = "NotFoundError" THEN "NotFound" ELSE "BadRequest"

errorHandler(err) ==
    IF IsApiError(err)
    THEN [status |-> err.statusCode, error |-> ErrorKind(err), message |-> err.message]
    ELSE IF err.code = "23505"
    THEN [status |-> 409, error |-> "Conflict",
          message |-> "A record with this value already exists"]
    ELSE IF err.code = "23503"
    THEN [status |-> 400, error |-> "BadRequest",
          message |-> "Referenced record does not exist"]
    ELSE [status |-> 500, error |-> "InternalServerError",
          message |-> "An unexpected error occurred"]

\* res.status(201).json({vote, voteCount})
Created == [status |-> 201, error |-> "", message |-> ""]

\* res.json({message: 'Vote removed', voteCount})
Removed == [status |-> 200, error |-> "", message |-> "Vote removed"]

NoResp == [status |-> 0, error |-> "", message |-> ""]

\* --------------------------------------------------------------- requests

\* A request as it arrives.  rows: vote rows it inserted or deleted; counted:
\* its UPDATE of vote_count ran; pub: its publish ran; newCount: the
\* vote_count its UPDATE returned.
NewRequest(op, v, s) ==
    [op |-> op, voter |-> v, sub |-> s, pc |-> "start", resp |-> NoResp,
     rows |-> 0, counted |-> FALSE, pub |-> FALSE, newCount |-> 0]

\* The requests of the run; requests in the same position are one bag entry.
Requests == BagToSet(req)

CanStart == BagCardinality(req) < MaxReq

Done(x) == x.pc = "done"

InFlight(x) == x.pc # "done"

Quiescent == \A x \in Requests : Done(x)

\* Request x moves on as y.
Becomes(x, y) == req' = (req (-) SetToBag({x})) (+) SetToBag({y})

\* asyncHandler: a thrown error goes to errorHandler, which answers.
Throw(x, err) == [x EXCEPT !.pc = "done", !.resp = errorHandler(err)]

\* ------------------------------------------------------------ store rules

\* The votes table without its unique index.
UniqueIndexDropped(v, s) == TRUE

\* votes_unique_idx on (submissionId, userId).
UniqueIndexHolds(v, s) == votes[<<v, s>>] = 0

\* votes.submissionId references submissions.id.
ForeignKeyHolds(s) == s \in Subs /\ subExists[s]

\* What the postgres driver throws on a foreign-key violation.
ForeignKeyViolation == [UniqueViolation EXCEPT !.code = "23503"]

\* SET vote_count = vote_count + 1, evaluated by the store on the current row.
Incremented(vc) == vc + 1

\* SET vote_count = vote_count - 1, evaluated by the store on the current row.
Decremented(vc) == vc - 1

\* A phase check that lets the submission phase vote too.
VotingOpenOrActive(c) == chExists[c] /\ chStatus[c] \in {"VOTING", "ACTIVE"}

\* if (!challenge || challenge.status !== 'VOTING') throw ...
VotingOpen(c) == chExists[c] /\ chStatus[c] = "VOTING"

\* const [submission] = await db.select()...where(eq(submissions.id, submissionId))
SubmissionFound(s) == s \in Subs /\ subExists[s]

\* The submission checks with the disqualification test moved before the
\* status test.
CastSubmissionCheckDisqFirst(s) ==
    IF ~SubmissionFound(s) THEN "notFound"
    ELSE IF subDisq[s] THEN "disqualified"
    ELSE IF subStatus[s] # "READY" THEN "notReady"
    ELSE "ok"

\* The precondition that fails first on the submission row (checks 1 to 3 of
\* POST /api/votes), or "ok".
CastSubmissionCheck(s) ==
    IF ~SubmissionFound(s) THEN "notFound"
    ELSE IF subStatus[s] # "READY" THEN "notReady"
    ELSE IF subDisq[s] THEN "disqualified"
    ELSE "ok"

CastSubmissionError(check) ==
    IF check = "notFound" THEN NotFoundError("Submission")
    ELSE IF check = "notReady"
    THEN BadRequestError("This submission is not ready for voting")
    ELSE BadRequestError("This submission has been disqualified")

\* The only check of DELETE /api/votes/:submissionId on the submission row.
RetractSubmissionCheck(s) == IF ~SubmissionFound(s) THEN "notFound" ELSE "ok"

VotingNotOpen == BadRequestError("Voting is not currently open for this challenge")

VotingNoLongerOpen == BadRequestError("Voting is no longer open for this challenge")

AlreadyVoted == BadRequestError("You have already voted for this submission")

NotVoted == BadRequestError("You have not voted for this submission")

\* SELECT count(*) FROM votes WHERE submission_id = s
CountRows(f, s) == f[<<"v1", s>>] + f[<<"v2", s>>]

\* existingVote.length > 0
HasVoted(v, s) == votes[<<v, s>>] > 0

\* JSON.stringify({submissionId, voteCount, action}) on `votes:${challengeId}`
VoteEvent(s, vc, action) ==
    [topic |-> SubChallenge(s), submissionId |-> s, voteCount |-> vc, action |-> action]

\* The subscriber of live-feed request x receives a message of its channel
\* and emits 'message': the stream handler registered no listener for it
\* (the function it hands to subscribe is that command's callback).
OnMessage(x, message) == x

\* redisClient.publish(`votes:${challengeId}`, message): Redis passes the
\* message to every subscriber of that channel.
Broadcast(message) ==
    BagOfAll(LAMBDA x : IF x.subscriber \in {"subscribed", "quitting"} /\ x.cid = message.topic
                        THEN OnMessage(x, message)
                        ELSE x,
             conns)

\* -------------------------------------------------------- POST /api/votes

\* Request x after the SELECT of its submission row and checks 1 to 3.
CastEntered(x) ==
    LET check == CastSubmissionCheck(x.sub)
    IN IF check = "ok" THEN [x EXCEPT !.pc = "selCh"]
                       ELSE Throw(x, CastSubmissionError(check))

\* The request, authenticated as v, arrives and reads the submission row.
CastSelectSubmission(v, s) ==
    /\ CanStart
    /\ req' = req (+) SetToBag({CastEntered(NewRequest("cast", v, s))})
    /\ UNCHANGED <<dbVars, votes0, published, sideVars>>

\* Reads the challenge row; check 4.
CastSelectChallenge ==
    \E x \in Requests :
        /\ x.op = "cast" /\ x.pc = "selCh"
        /\ Becomes(x, IF VotingOpen(SubChallenge(x.sub))
                      THEN [x EXCEPT !.pc = "selVote"]
                      ELSE Throw(x, VotingNotOpen))
        /\ UNCHANGED <<dbVars, votes0, published, sideVars>>

\* Reads the voter's vote on the submission; check 5.
CastSelectVote ==
    \E x \in Requests :
        /\ x.op = "cast" /\ x.pc = "selVote"
        /\ Becomes(x, IF HasVoted(x.voter, x.sub)
                      THEN Throw(x, AlreadyVoted)
                      ELSE [x EXCEPT !.pc = "insert"])
        /\ UNCHANGED <<dbVars, votes0, published, sideVars>>

\* INSERT INTO votes ... RETURNING *
CastInsert ==
    \E x \in Requests :
        /\ x.op = "cast" /\ x.pc = "insert"
        /\ IF ~ForeignKeyHolds(x.sub)
           THEN /\ Becomes(x, Throw(x, ForeignKeyViolation))
                /\ UNCHANGED votes
           ELSE IF ~UniqueIndexHolds(x.voter, x.sub)
           THEN /\ Becomes(x, Throw(x, UniqueViolation))
                /\ UNCHANGED votes
           ELSE /\ votes' = [votes EXCEPT ![<<x.voter, x.sub>>] = @ + 1]
                /\ Becomes(x, [x EXCEPT !.pc = "update", !.rows = 1])
        /\ UNCHANGED <<chExists, chStatus, subExists, subStatus, subDisq, voteCount,
                       votes0, published, sideVars>>

\* An UPDATE that writes a count computed in the application from a snapshot
\* read before the concurrent requests ran, instead of vote_count + 1.
CastUpdateFromSnapshot ==
    \E x \in Requests :
        /\ x.op = "cast" /\ x.pc = "update"
        /\ IF SubmissionFound(x.sub)
           THEN /\ voteCount' = [voteCount EXCEPT
                                    ![x.sub] = Incremented(CountRows(votes0, x.sub))]
                /\ Becomes(x, [x EXCEPT !.pc = "publish", !.counted = TRUE,
                                  !.newCount = Incremented(CountRows(votes0, x.sub))])
           ELSE /\ Becomes(x, Throw(x, TypeError))
                /\ UNCHANGED voteCount
        /\ UNCHANGED <<chExists, chStatus, subExists, subStatus, subDisq, votes,
                       votes0, published, sideVars>>

\* UPDATE submissions SET vote_count = vote_count + 1 ... RETURNING vote_count
CastUpdate ==
    \E x \in Requests :
        /\ x.op = "cast" /\ x.pc = "update"
        /\ IF SubmissionFound(x.sub)
           THEN /\ voteCount' = [voteCount EXCEPT ![x.sub] = Incremented(@)]
                /\ Becomes(x, [x EXCEPT !.pc = "publish", !.counted = TRUE,
                                  !.newCount = Incremented(voteCount[x.sub])])
           ELSE /\ Becomes(x, Throw(x, TypeError))
                /\ UNCHANGED voteCount
        /\ UNCHANGED <<chExists, chStatus, subExists, subStatus, subDisq, votes,
                       votes0, published, sideVars>>

\* A publish that reads the count again instead of using the value its own
\* UPDATE returned.
CastPublishCurrentCount ==
    \E x \in Requests :
        /\ x.op = "cast" /\ x.pc = "publish"
        /\ published' = Append(published, VoteEvent(x.sub, voteCount[x.sub], "add"))
        /\ conns' = Broadcast(VoteEvent(x.sub, voteCount[x.sub], "add"))
        /\ Becomes(x, [x EXCEPT !.pc = "done", !.pub = TRUE, !.resp = Created])
        /\ UNCHANGED <<dbVars, votes0, suspended, auxVars>>

\* redisClient.publish, then res.status(201).json(...)
CastPublish ==
    \E x \in Requests :
        /\ x.op = "cast" /\ x.pc = "publish"
        /\ published' = Append(published, VoteEvent(x.sub, x.newCount, "add"))
        /\ conns' = Broadcast(VoteEvent(x.sub, x.newCount, "add"))
        /\ Becomes(x, [x EXCEPT !.pc = "done", !.pub = TRUE, !.resp = Created])
        /\ UNCHANGED <<dbVars, votes0, suspended, auxVars>>

\* --------------------------------------------- DELETE /api/votes/:submissionId

\* Request x after the SELECT of its submission row.
RetractEntered(x) ==
    IF RetractSubmissionCheck(x.sub) = "ok" THEN [x EXCEPT !.pc = "selCh"]
                                            ELSE Throw(x, NotFoundError("Submission"))

\* The request, authenticated as v, arrives and reads the submission row.
RetractSelectSubmission(v, s) ==
    /\ CanStart
    /\ req' = req (+) SetToBag({RetractEntered(NewRequest("retract", v, s))})
    /\ UNCHANGED <<dbVars, votes0, published, sideVars>>

\* Reads the challenge row.
RetractSelectChallenge ==
    \E x \in Requests :
        /\ x.op = "retract" /\ x.pc = "selCh"
        /\ Becomes(x, IF VotingOpen(SubChallenge(x.sub))
                      THEN [x EXCEPT !.pc = "delete"]
                      ELSE Throw(x, VotingNoLongerOpen))
        /\ UNCHANGED <<dbVars, votes0, published, sideVars>>

\* A retraction that decrements vote_count before it looks at the deleted rows.
RetractDeleteCountsFirst ==
    \E x \in Requests :
        /\ x.op = "retract" /\ x.pc = "delete"
        /\ LET deleted == votes[<<x.voter, x.sub>>]
           IN /\ votes' = [votes EXCEPT ![<<x.voter, x.sub>>] = 0]
              /\ voteCount' = [voteCount EXCEPT ![x.sub] = Decremented(@)]
              /\ Becomes(x, IF deleted = 0
                            THEN Throw(x, NotVoted)
                            ELSE [x EXCEPT !.pc = "publish", !.rows = deleted,
                                           !.counted = TRUE,
                                           !.newCount = Decremented(voteCount[x.sub])])
        /\ UNCHANGED <<chExists, chStatus, subExists, subStatus, subDisq,
                       votes0, published, sideVars>>

\* A retraction that deletes every voter's row on the submission.
RetractDeleteAnyVoter ==
    \E x \in Requests :
        /\ x.op = "retract" /\ x.pc = "delete"
        /\ LET deleted == CountRows(votes, x.sub)
           IN /\ votes' = [p \in Voters \X Subs |-> IF p[2] = x.sub THEN 0 ELSE votes[p]]
              /\ Becomes(x, IF deleted = 0
                            THEN Throw(x, NotVoted)
                            ELSE [x EXCEPT !.pc = "update", !.rows = deleted])
        /\ UNCHANGED <<chExists, chStatus, subExists, subStatus, subDisq, voteCount,
                       votes0, published, sideVars>>

\* DELETE FROM votes WHERE submission_id = .. AND user_id = .. RETURNING *
RetractDelete ==
    \E x \in Requests :
        /\ x.op = "retract" /\ x.pc = "delete"
        /\ LET deleted == votes[<<x.voter, x.sub>>]
           IN /\ votes' = [votes EXCEPT ![<<x.voter, x.sub>>] = 0]
              /\ Becomes(x, IF deleted = 0
                            THEN Throw(x, NotVoted)
                            ELSE [x EXCEPT !.pc = "update", !.rows = deleted])
        /\ UNCHANGED <<chExists, chStatus, subExists, subStatus, subDisq, voteCount,
                       votes0, published, sideVars>>

\* UPDATE submissions SET vote_count = vote_count - 1 ... RETURNING vote_count
RetractUpdate ==
    \E x \in Requests :
        /\ x.op = "retract" /\ x.pc = "update"
        /\ IF SubmissionFound(x.sub)
           THEN /\ voteCount' = [voteCount EXCEPT ![x.sub] = Decremented(@)]
                /\ Becomes(x, [x EXCEPT !.pc = "publish", !.counted = TRUE,
                                  !.newCount = Decremented(voteCount[x.sub])])
           ELSE /\ Becomes(x, Throw(x, TypeError))
                /\ UNCHANGED voteCount
        /\ UNCHANGED <<chExists, chStatus, subExists, subStatus, subDisq, votes,
                       votes0, published, sideVars>>

\* redisClient.publish, then res.json(...)
RetractPublish ==
    \E x \in Requests :
        /\ x.op = "retract" /\ x.pc = "publish"
        /\ published' = Append(published, VoteEvent(x.sub, x.newCount, "remove"))
        /\ conns' = Broadcast(VoteEvent(x.sub, x.newCount, "remove"))
        /\ Becomes(x, [x EXCEPT !.pc = "done", !.pub = TRUE, !.resp = Removed])
        /\ UNCHANGED <<dbVars, votes0, suspended, auxVars>>

\* ------------------------------------------------------------ authenticate

\* A user id that names no users row (the account of a still valid token was
\* deleted).
NoUser == "v0"

\* What a request carries as Authorization header: none (or not 'Bearer '), a
\* token jwt.verify rejects, an expired token, or a valid token of userId.
Credentials ==
    {[kind |-> k, userId |-> ""] : k \in {"none", "invalid", "expired"}}
        \cup {[kind |-> "valid", userId |-> u] : u \in Voters \cup {NoUser}}

\* res.status(..).json({error, message}) of the middleware.
AuthResponse(status, error, message) ==
    [status |-> status, error |-> error, message |-> message]

\* A request as it reaches the middleware: req.user is not set.
AuthRequest(op, cred, s) ==
    [op |-> op, cred |-> cred, voter |-> "", sub |-> s, pc |-> "selUser",
     resp |-> NoResp, rows |-> 0, counted |-> FALSE, pub |-> FALSE, newCount |-> 0]

Answer(x, resp) == [x EXCEPT !.pc = "done", !.resp = resp]

\* A user check that lets suspended accounts through.
NeverSuspended(u) == FALSE

\* if (user.suspended)
Suspended(u) == suspended[u]

\* authenticate up to its SELECT of the user: the header and the token.
Authenticate(op, cred, s) ==
    /\ CanStart
    /\ LET x == AuthRequest(op, cred, s)
       IN req' = req (+) SetToBag({
              IF cred.kind = "none"
              THEN Answer(x, AuthResponse(401, "Unauthorized", "No token provided"))
              ELSE IF cred.kind = "expired"
              THEN Answer(x, AuthResponse(401, "TokenExpired", "Access token has expired"))
              ELSE IF cred.kind = "invalid"
              THEN Answer(x, AuthResponse(401, "Unauthorized", "Invalid token"))
              ELSE x})
    /\ UNCHANGED <<dbVars, votes0, published, sideVars>>

\* The SELECT of the user row, then next(): req.user.id is the row's id.
AuthSelectUser ==
    \E x \in Requests :
        /\ x.pc = "selUser"
        /\ Becomes(x, IF x.cred.userId \notin Voters
                      THEN Answer(x, AuthResponse(401, "Unauthorized", "User not found"))
                      ELSE IF Suspended(x.cred.userId)
                      THEN Answer(x, AuthResponse(403, "AccountSuspended",
                                                  "Your account has been suspended"))
                      ELSE [x EXCEPT !.voter = x.cred.userId, !.pc = "start"])
        /\ UNCHANGED <<dbVars, votes0, published, sideVars>>

\* POST /api/votes after the middleware: the SELECT of the submission row.
CastStart ==
    \E x \in Requests :
        /\ x.op = "cast" /\ x.pc = "start"
        /\ Becomes(x, CastEntered(x))
        /\ UNCHANGED <<dbVars, votes0, published, sideVars>>

\* DELETE /api/votes/:submissionId after the middleware.
RetractStart ==
    \E x \in Requests :
        /\ x.op = "retract" /\ x.pc = "start"
        /\ Becomes(x, RetractEntered(x))
        /\ UNCHANGED <<dbVars, votes0, published, sideVars>>

\* PATCH /api/admin/users/:id/suspend {suspended: b}
AdminSuspend(u, b) ==
    /\ suspended' = [suspended EXCEPT ![u] = b]
    /\ UNCHANGED <<dbVars, votes0, published, req, conns, auxVars>>

\* ------------------------------------------------ GET /api/votes/stream

\* A request without the challengeId query parameter.
NoChallenge == ""

\* `data: ${JSON.stringify({type: 'connected', challengeId})}\n\n`
ConnectedFrame(c) ==
    [line |-> "data", body |-> [type |-> "connected", challengeId |-> c]]

\* `data: ${message}\n\n`, message being the published JSON text.
MessageFrame(message) == [line |-> "data", body |-> message]

\* `data: ${message}\n\n` as the callback handed to subscriber.subscribe
\* writes it: ioredis calls the last argument of a command as (err, result)
\* when the command completes, so message is null, or the Error.
CallbackFrame(err) == [line |-> "data", body |-> [text |-> err]]

\* `: heartbeat\n\n`
HeartbeatFrame == [line |-> "comment", body |-> [text |-> "heartbeat"]]

\* The live-feed requests of the run; requests in the same position are one
\* bag entry.
Conns == BagToSet(conns)

CanOpen == BagCardinality(conns) < MaxConn

\* The handler after res.write of the connected event and createSubscriber(),
\* at await subscriber.connect().  closed: the request emitted 'close';
\* timer: the heartbeat interval is set; written: the frames written to the
\* response; late: res.write was called after 'close' or after res.end().
NewConn(c) ==
    [cid |-> c, pc |-> "connect", status |-> 200, closed |-> FALSE,
     subscriber |-> "connecting", timer |-> FALSE,
     written |-> <<ConnectedFrame(c)>>, late |-> FALSE]

\* return res.status(400).json({error: 'challengeId is required'})
RejectedConn ==
    [NewConn(NoChallenge) EXCEPT !.pc = "rejected", !.status = 400,
                                 !.subscriber = "none", !.written = <<>>]

ConnBecomes(x, y) == conns' = (conns (-) SetToBag({x})) (+) SetToBag({y})

\* res.write(frame)
Write(x, frame) ==
    IF x.closed \/ x.pc = "ended"
    THEN [x EXCEPT !.late = TRUE]
    ELSE [x EXCEPT !.written = Append(@, frame)]

\* A handler without the challengeId test.
StreamOpenUnchecked(c) ==
    /\ CanOpen
    /\ conns' = conns (+) SetToBag({NewConn(c)})
    /\ UNCHANGED <<dbVars, votes0, published, req, suspended, auxVars>>

\* The request arrives: the challengeId test, the headers, the connected
\* event, createSubscriber() and the call of subscriber.connect().
StreamOpen(c) ==
    /\ CanOpen
    /\ conns' = conns (+) SetToBag({IF c = NoChallenge THEN RejectedConn ELSE NewConn(c)})
    /\ UNCHANGED <<dbVars, votes0, published, req, suspended, auxVars>>

\* await subscriber.connect() resolves; subscriber.subscribe is called.
SubscriberConnect ==
    \E x \in Conns :
        /\ x.pc = "connect"
        /\ ConnBecomes(x, [x EXCEPT !.pc = "subscribe", !.subscriber = "connected"])
        /\ UNCHANGED <<dbVars, votes0, published, req, suspended, auxVars>>

\* await subscriber.connect() rejects: catch, res.end(), return.  The client
\* object keeps reconnecting (default retryStrategy).
SubscriberConnectFails ==
    \E x \in Conns :
        /\ x.pc = "connect"
        /\ ConnBecomes(x, [x EXCEPT !.pc = "ended"])
        /\ UNCHANGED <<dbVars, votes0, published, req, suspended, auxVars>>

\* await subscriber.subscribe(channel, callback) resolves: the callback runs
\* with (null, 1), then setInterval and req.on('close', ..).
SubscriberSubscribe ==
    \E x \in Conns :
        /\ x.pc = "subscribe"
        /\ ConnBecomes(x, [Write(x, CallbackFrame("null")) EXCEPT
                              !.pc = "open", !.subscriber = "subscribed",
                              !.timer = TRUE])
        /\ UNCHANGED <<dbVars, votes0, published, req, suspended, auxVars>>

\* await subscriber.subscribe(..) rejects: the callback runs with the error,
\* then catch, res.end(), return.
SubscriberSubscribeFails ==
    \E x \in Conns :
        /\ x.pc = "subscribe"
        /\ ConnBecomes(x, [Write(x, CallbackFrame("Error")) EXCEPT !.pc = "ended"])
        /\ UNCHANGED <<dbVars, votes0, published, req, suspended, auxVars>>

\* The keep-alive lines written to x.
Beats(x) == Len(SelectSeq(x.written, LAMBDA f : f = HeartbeatFrame))

\* The interval set by setInterval(.., 30000) fires.
Heartbeat ==
    \E x \in Conns :
        /\ x.timer
        /\ Beats(x) < MaxBeats
        /\ ConnBecomes(x, Write(x, HeartbeatFrame))
        /\ UNCHANGED <<dbVars, votes0, published, req, suspended, auxVars>>

\* The request emits 'close' (the client went away, or the response ended).
\* The listener, once registered, clears the interval and calls
\* subscriber.quit().
StreamClose ==
    \E x \in Conns :
        /\ x.pc # "rejected"
        /\ ~x.closed
        /\ ConnBecomes(x, IF x.pc = "open"
                          THEN [x EXCEPT !.closed = TRUE, !.timer = FALSE,
                                         !.subscriber = "quitting"]
                          ELSE [x EXCEPT !.closed = TRUE])
        /\ UNCHANGED <<dbVars, votes0, published, req, suspended, auxVars>>

\* await subscriber.quit() resolves.
SubscriberQuit ==
    \E x \in Conns :
        /\ x.subscriber = "quitting"
        /\ ConnBecomes(x, [x EXCEPT !.subscriber = "quit"])
        /\ UNCHANGED <<dbVars, votes0, published, req, suspended, auxVars>>

\* ------------------------------- GET /api/votes/leaderboard/:challengeId

\* A lookup that finds a competition only while it is open for voting.
ChallengeFoundInVoting(c) == c \in Challenges /\ chExists[c] /\ chStatus[c] = "VOTING"

\* const [challenge] = await db.select({id})...where(eq(challenges.id, challengeId))
ChallengeFound(c) == c \in Challenges /\ chExists[c]

\* A WHERE clause without the disqualified test.
EligibleWithDisqualified(c) ==
    {s \in DOMAIN subExists :
        subExists[s] /\ SubChallenge(s) = c /\ subStatus[s] = "READY"}

\* WHERE challenge_id = c AND status = 'READY' AND disqualified = false
Eligible(c) ==
    {s \in DOMAIN subExists :
        subExists[s] /\ SubChallenge(s) = c /\ subStatus[s] = "READY" /\ ~subDisq[s]}

\* Number of rows the query returns: LIMIT.
BoardSize(c) ==
    IF Cardinality(Eligible(c)) < Limit THEN Cardinality(Eligible(c)) ELSE Limit

\* The results the store may give for ... ORDER BY vote_count DESC LIMIT: the
\* first rows of any ordering of the eligible rows by non-increasing
\* vote_count.  The query has no second sort key, so the order of rows with
\* equal vote_count, and which of them the limit cuts, is the store's choice
\* at each execution.
LeaderboardQuery(c) ==
    {q \in [1..BoardSize(c) -> Eligible(c)] :
        /\ \A i, j \in 1..BoardSize(c) :
               i < j => q[i] # q[j] /\ voteCount[q[i]] >= voteCount[q[j]]
        /\ \A s \in Eligible(c) \ {q[i] : i \in 1..BoardSize(c)} :
               \A i \in 1..BoardSize(c) : voteCount[s] <= voteCount[q[i]]}

\* leaderboard.reduce((sum, s) => sum + s.voteCount, 0)
RECURSIVE TotalVotes(_)
TotalVotes(q) == IF q = <<>> THEN 0 ELSE voteCount[Head(q)] + TotalVotes(Tail(q))

\* The pairs (voteCount, totalVotes), totalVotes <= 1000, for which the double
\* (voteCount / totalVotes) * 1000 lies just below n + 0.5 while
\* voteCount * 1000 / totalVotes is n + 0.5: 201 / 400 * 1000 is
\* 502.49999999999994 in IEEE-754 binary64.
BelowTie == {<<201, 400>>, <<203, 400>>, <<402, 800>>, <<406, 800>>}

\* Math.round((voteCount / totalVotes) * 1000) in binary64, for
\* 0 <= voteCount <= totalVotes <= 1000: the nearest integer, a tie upwards.
RoundPerMille(vc, total) ==
    IF <<vc, total>> \in BelowTie THEN (vc * 1000) \div total
    ELSE (2 * vc * 1000 + total) \div (2 * total)

\* votePercentage, in tenths of a percent (50.2 is 502).
VotePercentage(vc, total) == IF total > 0 THEN RoundPerMille(vc, total) ELSE 0

\* leaderboard.map((sub, index) => ({...sub, rank: index + 1, votePercentage}))
WithPercentages(q) ==
    [i \in 1..Len(q) |->
        [id |-> q[i], voteCount |-> voteCount[q[i]], rank |-> i,
         votePercentage |-> VotePercentage(voteCount[q[i]], TotalVotes(q))]]

\* res.json({leaderboard, totalVotes})
BoardSent == [status |-> 200, error |-> "", message |-> ""]

\* A leaderboard request as it arrives.
NewBoardRequest(c) ==
    [cid |-> c, pc |-> "start", resp |-> NoResp, leaderboard |-> <<>>, totalVotes |-> 0]

BoardRequests == BagToSet(lreq)

\* The request arrives (the route has no authenticate) and reads the
\* challenge row.
LeaderboardSelectChallenge(c) ==
    /\ BagCardinality(lreq) < MaxBoard
    /\ lreq' = lreq (+) SetToBag({
           IF ChallengeFound(c)
           THEN [NewBoardRequest(c) EXCEPT !.pc = "selBoard"]
           ELSE [NewBoardRequest(c) EXCEPT
                    !.pc = "done", !.resp = errorHandler(NotFoundError("Challenge"))]})
    /\ UNCHANGED <<dbVars, votes0, published, req, suspended, conns,
                   submissionCount, sreq>>

\* Reads the leaderboard rows, computes totals, ranks and percentages, answers.
LeaderboardSelect ==
    \E x \in BoardRequests :
        /\ x.pc = "selBoard"
        /\ \E q \in LeaderboardQuery(x.cid) :
              lreq' = (lreq (-) SetToBag({x})) (+) SetToBag({
                  [x EXCEPT !.pc = "done", !.resp = BoardSent,
                            !.leaderboard = WithPercentages(q),
                            !.totalVotes = TotalVotes(q)]})
        /\ UNCHANGED <<dbVars, votes0, published, req, suspended, conns,
                       submissionCount, sreq>>

\* ------------------------------------------ /api/submissions, /api/uploads

\* res.status(201).json({submission})
SubmissionCreated == [status |-> 201, error |-> "", message |-> ""]

\* res.json({message: 'Submission deleted'})
SubmissionDeleted == [status |-> 200, error |-> "", message |-> "Submission deleted"]

NotAccepting == BadRequestError("Challenge is not accepting submissions")

\* A submission request as it arrives: for a creation or an upload
\* confirmation cid is the challengeId of the body, for a deletion sub is the
\* id of the path.  All are sent by the one artist of the run, the owner of
\* the rows.  inserted: its INSERT added the row sub.
NewSubmissionRequest(op, c, s) ==
    [op |-> op, cid |-> c, sub |-> s, pc |-> "start", resp |-> NoResp,
     inserted |-> FALSE]

SubmissionRequests == BagToSet(sreq)

CanStartSubmission == BagCardinality(sreq) < MaxReq

\* Submission request x moves on as y.
SubmissionBecomes(x, y) == sreq' = (sreq (-) SetToBag({x})) (+) SetToBag({y})

\* The rows of challenge c (the artist's one row, by the unique index on
\* challenge and artist).
RowsOf(c) == {s \in Subs : subExists[s] /\ SubChallenge(s) = c}

\* The ids a new row of challenge c may get: ids are generated, never reused.
FreshIds(c) ==
    {s \in Subs \ InitialRows :
        /\ SubChallenge(s) = c /\ ~subExists[s]
        /\ \A x \in SubmissionRequests : ~(x.inserted /\ x.sub = s)}

\* INSERT INTO submissions (..., status) VALUES (..., 'PROCESSING') as row s
InsertSubmission(s) ==
    /\ subExists' = [subExists EXCEPT ![s] = TRUE]
    /\ subStatus' = [subStatus EXCEPT ![s] = "PROCESSING"]
    /\ subDisq' = [subDisq EXCEPT ![s] = FALSE]
    /\ voteCount' = [voteCount EXCEPT ![s] = 0]

\* The INSERT of request x, answered as y on success.
SubmissionInsert(x, y) ==
    IF ~ChallengeFound(x.cid)
    THEN /\ SubmissionBecomes(x, Throw(x, ForeignKeyViolation))
         /\ UNCHANGED <<subExists, subStatus, subDisq, voteCount>>
    ELSE IF RowsOf(x.cid) # {}
    THEN /\ SubmissionBecomes(x, Throw(x, UniqueViolation))
         /\ UNCHANGED <<subExists, subStatus, subDisq, voteCount>>
    ELSE \E s \in FreshIds(x.cid) :
            /\ InsertSubmission(s)
            /\ SubmissionBecomes(x, [y EXCEPT !.sub = s, !.inserted = TRUE])

\* POST /api/submissions: the request arrives and reads the challenge row;
\* late: the submission deadline is set and has passed.
SubmitSelectChallenge(c, late) ==
    /\ CanStartSubmission
    /\ LET x == NewSubmissionRequest("create", c, NoSub)
       IN sreq' = sreq (+) SetToBag({
              IF ~ChallengeFound(c) THEN Throw(x, NotFoundError("Challenge"))
              ELSE IF chStatus[c] # "ACTIVE" THEN Throw(x, NotAccepting)
              ELSE IF late
              THEN Throw(x, BadRequestError("Submission deadline has passed"))
              ELSE IF submissionCount[c] >= MaxSubmissions
              THEN Throw(x, BadRequestError("Challenge has reached maximum submissions"))
              ELSE [x EXCEPT !.pc = "selExisting"]})
    /\ UNCHANGED <<dbVars, votes0, published, req, suspended, conns, lreq,
                   submissionCount>>

\* Reads the artist's submission to the challenge.
SubmitSelectExisting ==
    \E x \in SubmissionRequests :
        /\ x.op = "create" /\ x.pc = "selExisting"
        /\ SubmissionBecomes(x,
              IF RowsOf(x.cid) # {}
              THEN Throw(x, BadRequestError("You have already submitted to this challenge"))
              ELSE [x EXCEPT !.pc = "insert"])
        /\ UNCHANGED <<dbVars, votes0, published, req, suspended, conns, lreq,
                       submissionCount>>

\* INSERT INTO submissions ... RETURNING *
SubmitInsert ==
    \E x \in SubmissionRequests :
        /\ x.op = "create" /\ x.pc = "insert"
        /\ SubmissionInsert(x, [x EXCEPT !.pc = "update"])
        /\ UNCHANGED <<chExists, chStatus, votes, votes0, published, req, suspended,
                       conns, lreq, submissionCount>>

\* UPDATE challenges SET submission_count = submission_count + 1, then
\* res.status(201).json(...)
SubmitUpdate ==
    \E x \in SubmissionRequests :
        /\ x.op = "create" /\ x.pc = "update"
        /\ submissionCount' = IF ChallengeFound(x.cid)
                              THEN [submissionCount EXCEPT ![x.cid] = @ + 1]
                              ELSE submissionCount
        /\ SubmissionBecomes(x, [x EXCEPT !.pc = "done", !.resp = SubmissionCreated])
        /\ UNCHANGED <<dbVars, votes0, published, req, suspended, conns, lreq>>

\* POST /api/uploads/confirm, with a key of the artist: the request arrives
\* and reads the challenge row.
ConfirmSelectChallenge(c) ==
    /\ CanStartSubmission
    /\ LET x == NewSubmissionRequest("confirm", c, NoSub)
       IN sreq' = sreq (+) SetToBag({
              IF ~ChallengeFound(c) \/ chStatus[c] # "ACTIVE"
              THEN Throw(x, NotAccepting)
              ELSE [x EXCEPT !.pc = "insert"]})
    /\ UNCHANGED <<dbVars, votes0, published, req, suspended, conns, lreq,
                   submissionCount>>

\* INSERT INTO submissions ... RETURNING *, then res.status(201).json(...)
ConfirmInsert ==
    \E x \in SubmissionRequests :
        /\ x.op = "confirm" /\ x.pc = "insert"
        /\ SubmissionInsert(x, [x EXCEPT !.pc = "done", !.resp = SubmissionCreated])
        /\ UNCHANGED <<chExists, chStatus, votes, votes0, published, req, suspended,
                       conns, lreq, submissionCount>>

\* DELETE /api/submissions/:id: the request arrives and reads the submission
\* row; cid becomes submission.challengeId.
DeleteSelectSubmission(s) ==
    /\ CanStartSubmission
    /\ LET x == NewSubmissionRequest("delete", NoChallengeRow, s)
       IN sreq' = sreq (+) SetToBag({
              IF SubmissionFound(s)
              THEN [x EXCEPT !.pc = "selCh", !.cid = SubChallenge(s)]
              ELSE Throw(x, NotFoundError("Submission"))})
    /\ UNCHANGED <<dbVars, votes0, published, req, suspended, conns, lreq,
                   submissionCount>>

\* Reads the status of the challenge: if (challenge?.status !== 'ACTIVE') throw
DeleteSelectChallenge ==
    \E x \in SubmissionRequests :
        /\ x.op = "delete" /\ x.pc = "selCh"
        /\ SubmissionBecomes(x,
              IF ChallengeFound(x.cid) /\ chStatus[x.cid] = "ACTIVE"
              THEN [x EXCEPT !.pc = "delete"]
              ELSE Throw(x, BadRequestError(
                       "Cannot delete submission after voting has started")))
        /\ UNCHANGED <<dbVars, votes0, published, req, suspended, conns, lreq,
                       submissionCount>>

\* DELETE FROM submissions WHERE id = :id; its votes go by ON DELETE CASCADE.
\* (The deletion of the stored object before it touches no table.)
DeleteRow ==
    \E x \in SubmissionRequests :
        /\ x.op = "delete" /\ x.pc = "delete"
        /\ subExists' = [subExists EXCEPT ![x.sub] = FALSE]
        /\ votes' = [p \in DOMAIN votes |-> IF p[2] = x.sub THEN 0 ELSE votes[p]]
        /\ SubmissionBecomes(x, [x EXCEPT !.pc = "update"])
        /\ UNCHANGED <<chExists, chStatus, subStatus, subDisq, voteCount, votes0,
                       published, req, suspended, conns, lreq, submissionCount>>

\* UPDATE challenges SET submission_count = submission_count - 1, then
\* res.json({message: 'Submission deleted'})
DeleteUpdate ==
    \E x \in SubmissionRequests :
        /\ x.op = "delete" /\ x.pc = "update"
        /\ submissionCount' = IF ChallengeFound(x.cid)
                              THEN [submissionCount EXCEPT ![x.cid] = @ - 1]
                              ELSE submissionCount
        /\ SubmissionBecomes(x, [x EXCEPT !.pc = "done", !.resp = SubmissionDeleted])
        /\ UNCHANGED <<dbVars, votes0, published, req, suspended, conns, lreq>>

\* ------------------------------------------------------------ phase changes

\* PATCH /api/admin/challenges/:id/cancel: whatever the current status.
AdminCancel(c) ==
    /\ chExists[c]
    /\ chStatus' = [chStatus EXCEPT ![c] = "CANCELLED"]
    /\ UNCHANGED <<chExists, subExists, subStatus, subDisq, voteCount, votes,
                   votes0, published, req, sideVars>>

\* POST /api/challenges/:id/publish, by a caller who owns the challenge, with
\* its deadlines set and in the future.
PublishChallenge(c) ==
    /\ chExists[c]
    /\ chStatus[c] = "DRAFT"
    /\ chStatus' = [chStatus EXCEPT ![c] = "ACTIVE"]
    /\ UNCHANGED <<chExists, subExists, subStatus, subDisq, voteCount, votes,
                   votes0, published, req, sideVars>>

\* SELECT count(*) FROM submissions WHERE challenge_id = c
SubmissionCount(c) == Cardinality({s \in Subs : subExists[s] /\ SubChallenge(s) = c})

\* DELETE /api/challenges/:id; submissions and their votes go by ON DELETE CASCADE.
DeleteChallenge(c) ==
    /\ chExists[c]
    /\ \/ chStatus[c] = "DRAFT"
       \/ chStatus[c] = "ACTIVE" /\ submissionCount[c] = 0
    /\ chExists' = [chExists EXCEPT ![c] = FALSE]
    /\ subExists' = [s \in Subs |-> subExists[s] /\ SubChallenge(s) # c]
    /\ votes' = [p \in Voters \X Subs |-> IF SubChallenge(p[2]) = c THEN 0 ELSE votes[p]]
    /\ UNCHANGED <<chStatus, subStatus, subDisq, voteCount, votes0, published, req, sideVars>>

\* ------------------------------------------------------------------ faults

\* The awaited statement or publish of an in-flight request rejects: the
\* statement has no effect and the error reaches errorHandler.
Fault ==
    \E x \in Requests :
        /\ InFlight(x)
        /\ Becomes(x, Throw(x, StoreError))
        /\ UNCHANGED <<dbVars, votes0, published, sideVars>>

\* ----------------------------------------------------------- specification

\* The vote rows an initial database may hold: none, or one vote of v1 on s1.
InitVotes ==
    {f \in [Voters \X Subs -> {0, 1}] : \A p \in Voters \X Subs : f[p] = 1 => p = <<"v1", "s1">>}

\* The initial database is consistent (vote_count counts the vote rows).
\* Challenge c1 and submission s1 are in any phase and eligibility; c2 and s2
\* are open for voting.
Init ==
    /\ chExists = [c \in Challenges |-> TRUE]
    /\ chStatus \in {f \in [Challenges -> ChallengeStatus] : f["c2"] = "VOTING"}
    /\ subExists = [s \in Subs |-> TRUE]
    /\ subStatus \in {f \in [Subs -> SubmissionStatus] : f["s2"] = "READY"}
    /\ subDisq \in {f \in [Subs -> BOOLEAN] : f["s2"] = FALSE}
    /\ votes \in InitVotes
    /\ votes0 = votes
    /\ voteCount = [s \in Subs |-> CountRows(votes, s)]
    /\ published = <<>>
    /\ req = EmptyBag
    /\ suspended = [u \in Voters |-> FALSE]
    /\ conns = EmptyBag
    /\ lreq = EmptyBag
    /\ submissionCount = [c \in Challenges |-> SubmissionCount(c)]
    /\ sreq = EmptyBag

Handlers ==
    \/ \E v \in Voters, s \in SubIds : CastSelectSubmission(v, s)
    \/ CastSelectChallenge
    \/ CastSelectVote
    \/ CastInsert
    \/ CastUpdate
    \/ CastPublish
    \/ \E v \in Voters, s \in SubIds : RetractSelectSubmission(v, s)
    \/ RetractSelectChallenge
    \/ RetractDelete
    \/ RetractUpdate
    \/ RetractPublish
    \/ \E c \in Challenges : AdminCancel(c)
    \/ \E c \in Challenges : PublishChallenge(c)
    \/ \E c \in Challenges : DeleteChallenge(c)

Next == Handlers

\* Every store statement and every publish succeeds.
Spec == Init /\ [][Next]_vars

NextFault == Handlers \/ Fault

\* Store statements and publishes may reject.
SpecFault == Init /\ [][NextFault]_vars

\* A database with both competitions open for voting, both submissions
\* eligible and no vote; no user suspended.
InitOpen ==
    /\ chExists = [c \in Challenges |-> TRUE]
    /\ chStatus = [c \in Challenges |-> "VOTING"]
    /\ subExists = [s \in Subs |-> TRUE]
    /\ subStatus = [s \in Subs |-> "READY"]
    /\ subDisq = [s \in Subs |-> FALSE]
    /\ votes = [p \in Voters \X Subs |-> 0]
    /\ votes0 = votes
    /\ voteCount = [s \in Subs |-> 0]
    /\ published = <<>>
    /\ req = EmptyBag
    /\ suspended = [u \in Voters |-> FALSE]
    /\ conns = EmptyBag
    /\ lreq = EmptyBag
    /\ submissionCount = [c \in Challenges |-> SubmissionCount(c)]
    /\ sreq = EmptyBag

NextAuth ==
    \/ \E op \in {"cast", "retract"}, cred \in Credentials, s \in Subs :
          Authenticate(op, cred, s)
    \/ AuthSelectUser
    \/ CastStart
    \/ CastSelectChallenge
    \/ CastSelectVote
    \/ CastInsert
    \/ CastUpdate
    \/ CastPublish
    \/ RetractStart
    \/ RetractSelectChallenge
    \/ RetractDelete
    \/ RetractUpdate
    \/ RetractPublish
    \/ \E u \in Voters, b \in BOOLEAN : AdminSuspend(u, b)

\* The vote routes behind their authenticate middleware.
SpecAuth == InitOpen /\ [][NextAuth]_vars

NextStream ==
    \/ \E c \in Challenges \cup {NoChallenge} : StreamOpen(c)
    \/ SubscriberConnect
    \/ SubscriberConnectFails
    \/ SubscriberSubscribe
    \/ SubscriberSubscribeFails
    \/ Heartbeat
    \/ StreamClose
    \/ SubscriberQuit
    \/ \E s \in Subs : Quiescent /\ CastSelectSubmission("v1", s)
    \/ CastSelectChallenge
    \/ CastSelectVote
    \/ CastInsert
    \/ CastUpdate
    \/ CastPublish
    \/ \E s \in Subs : Quiescent /\ RetractSelectSubmission("v1", s)
    \/ RetractSelectChallenge
    \/ RetractDelete
    \/ RetractUpdate
    \/ RetractPublish

\* The live feed, with the votes of one voter, sent one after the other, as
\* the source of events.
SpecStream == InitOpen /\ [][NextStream]_vars

\* The vote_count columns of the rows of c2 in a leaderboard run: ties, zero
\* totals, and the counts of the worked examples.
BoardVoteCounts ==
    {[s \in BoardSubs |-> IF s = "s1" THEN 0 ELSE f[s]] :
        f \in [BoardSubs \ {"s1"} -> {0, 2, 3}]}
    \cup {[s1 |-> 0, s2 |-> 30, s3 |-> 20, s4 |-> 10, s5 |-> 0],
          [s1 |-> 0, s2 |-> 201, s3 |-> 199, s4 |-> 0, s5 |-> 0],
          [s1 |-> 0, s2 |-> 1, s3 |-> 15, s4 |-> 0, s5 |-> 0]}

\* A database for leaderboard runs: c2 in any phase with four submissions, of
\* which s4 may still be processing and s5 may be disqualified.  The
\* vote_count values count the votes of voters who send no request in these
\* runs; their vote rows are not represented.
InitBoard ==
    /\ chExists = [c \in Challenges |-> TRUE]
    /\ chStatus \in {f \in [Challenges -> ChallengeStatus] : f["c1"] = "VOTING"}
    /\ subExists = [s \in BoardSubs |-> TRUE]
    /\ subStatus \in {f \in [BoardSubs -> {"READY", "PROCESSING"}] :
                         \A s \in BoardSubs : f[s] = "PROCESSING" => s = "s4"}
    /\ subDisq \in {f \in [BoardSubs -> BOOLEAN] : \A s \in BoardSubs : f[s] => s = "s5"}
    /\ votes = [p \in Voters \X BoardSubs |-> 0]
    /\ votes0 = votes
    /\ voteCount \in BoardVoteCounts
    /\ published = <<>>
    /\ req = EmptyBag
    /\ suspended = [u \in Voters |-> FALSE]
    /\ conns = EmptyBag
    /\ lreq = EmptyBag
    /\ submissionCount = [c \in Challenges |->
                             Cardinality({s \in BoardSubs : SubChallenge(s) = c})]
    /\ sreq = EmptyBag

NextBoard ==
    \/ \E c \in Challenges \cup {NoChallengeRow} : LeaderboardSelectChallenge(c)
    \/ LeaderboardSelect

\* Leaderboard queries on a store nobody writes to.
SpecBoard == InitBoard /\ [][NextBoard]_vars

\* A database for the submission routes: c1 accepts submissions and has the
\* artist's submission s1, counted; c2 accepts submissions or is open for
\* voting, and has none.
InitSubs ==
    /\ chExists = [c \in Challenges |-> TRUE]
    /\ chStatus \in {f \in [Challenges -> {"ACTIVE", "VOTING"}] : f["c1"] = "ACTIVE"}
    /\ subExists = [s \in Subs |-> s \in InitialRows]
    /\ subStatus \in {f \in [Subs -> {"PROCESSING", "READY"}] : f["s2"] = "PROCESSING"}
    /\ subDisq = [s \in Subs |-> FALSE]
    /\ votes = [p \in Voters \X Subs |-> 0]
    /\ votes0 = votes
    /\ voteCount = [s \in Subs |-> 0]
    /\ published = <<>>
    /\ req = EmptyBag
    /\ suspended = [u \in Voters |-> FALSE]
    /\ conns = EmptyBag
    /\ lreq = EmptyBag
    /\ submissionCount = [c \in Challenges |-> SubmissionCount(c)]
    /\ sreq = EmptyBag

NextSubs ==
    \/ \E c \in Challenges \cup {NoChallengeRow}, late \in BOOLEAN :
          SubmitSelectChallenge(c, late)
    \/ SubmitSelectExisting
    \/ SubmitInsert
    \/ SubmitUpdate
    \/ \E c \in Challenges \cup {NoChallengeRow} : ConfirmSelectChallenge(c)
    \/ ConfirmInsert
    \/ \E s \in SubIds : DeleteSelectSubmission(s)
    \/ DeleteSelectChallenge
    \/ DeleteRow
    \/ DeleteUpdate

\* The submission routes of one artist.
SpecSubs == InitSubs /\ [][NextSubs]_vars

\* ------------------------------------------------------------ observations

\* Number of requests of the run among the request records S.
Num(S) == BagCardinality([x \in S \cap Requests |-> CopiesIn(x, req)])

CastsOf(v, s) == {x \in Requests : x.op = "cast" /\ x.voter = v /\ x.sub = s}

RetractsOf(v, s) == {x \in Requests : x.op = "retract" /\ x.voter = v /\ x.sub = s}

\* The two answers that tell a caller its vote already exists: the pre-check's
\* 400 and the unique index's 409.
DuplicateResponses == {errorHandler(AlreadyVoted), errorHandler(UniqueViolation)}

\* Successful casts and retractions on s.
SuccessfulCasts(s) == {x \in Requests : x.op = "cast" /\ x.sub = s /\ x.resp = Created}

SuccessfulRetracts(s) == {x \in Requests : x.op = "retract" /\ x.sub = s /\ x.resp = Removed}

\* The status a SELECT of challenge c returns; "NONE": no row.
StatusOf(c) == IF chExists[c] THEN chStatus[c] ELSE "NONE"

\* Request x takes a step.
Steps(x) == CopiesIn(x, req') < CopiesIn(x, req)

\* ------------------------------------------------------------------ claims

\* C1: two CastVote(v, s) requests on a submission both found open for voting,
\* the only requests of v on s, v having no vote on s before: once both have
\* answered, exactly one was created and the other was rejected as a duplicate,
\* exactly one of them incremented voteCount, v has one vote row on s, and
\* voteCount of s is up by exactly 1 when no other request touched s.
C1_OneSuccessOneDuplicate ==
    \A v \in Voters, s \in Subs :
        LET casts == CastsOf(v, s)
        IN ( /\ Num(casts) = 2
             /\ Num(RetractsOf(v, s)) = 0
             /\ votes0[<<v, s>>] = 0
             /\ \A x \in casts : Done(x) /\ x.resp \in DuplicateResponses \cup {Created} )
           => /\ Num({x \in casts : x.resp = Created}) = 1
              /\ Num({x \in casts : x.resp \in DuplicateResponses}) = 1
              /\ Num({x \in casts : x.counted}) = 1
              /\ votes[<<v, s>>] = 1
              /\ Num({x \in Requests : x.sub = s}) = 2
                    => voteCount[s] = CountRows(votes0, s) + 1

\* C1 witness: the race happened, the loser passed the pre-check and was stopped
\* by the unique index.
C1_Witness ==
    \E v \in Voters, s \in Subs :
        /\ Num(CastsOf(v, s)) = 2
        /\ \E x, y \in CastsOf(v, s) :
              /\ x.resp = Created
              /\ y.resp = errorHandler(UniqueViolation)

\* C2: the votes table holds at most one row per (voter, submission).
C2_AtMostOneRow == \A p \in Voters \X Subs : votes[p] <= 1

\* C2 witness: a second insert of an existing pair was attempted and refused.
C2_Witness ==
    \E x \in Requests :
        /\ x.op = "cast" /\ x.resp = errorHandler(UniqueViolation)
        /\ votes[<<x.voter, x.sub>>] = 1

\* C3: with no request in flight, voteCount of every submission is its initial
\* value plus the number of casts that returned success minus the number of
\* retractions that returned success.
C3_CounterConsistency ==
    Quiescent =>
        \A s \in Subs :
            subExists[s] =>
                voteCount[s] = CountRows(votes0, s)
                                 + Num(SuccessfulCasts(s)) - Num(SuccessfulRetracts(s))

\* C4: voteCount is never negative, in the store and in published events.
C4_NeverNegative ==
    /\ \A s \in Subs : voteCount[s] >= 0
    /\ \A i \in 1..Len(published) : published[i].voteCount >= 0

\* C5: with no request in flight, voteCount of every submission equals the
\* number of vote rows on it.
C5_CountMatchesRows ==
    Quiescent => \A s \in Subs : subExists[s] => voteCount[s] = CountRows(votes, s)

\* C6: a CastVote that has answered did all of insert, increment and publish,
\* or none of them.
C6_CastAllOrNothing ==
    \A x \in Requests :
        (x.op = "cast" /\ Done(x)) =>
            \/ x.rows = 1 /\ x.counted /\ x.pub
            \/ x.rows = 0 /\ ~x.counted /\ ~x.pub

\* C7: a RetractVote that has answered did all of delete, decrement and
\* publish, or none of them.
C7_RetractAllOrNothing ==
    \A x \in Requests :
        (x.op = "retract" /\ Done(x)) =>
            \/ x.rows = 1 /\ x.counted /\ x.pub
            \/ x.rows = 0 /\ ~x.counted /\ ~x.pub

\* C8: a CastVote that passed the submission checks (the row exists, is READY
\* and not disqualified) and reads a competition that is not VOTING, or
\* missing, is answered 400 'Voting is not currently open' at that step,
\* which changes no table and publishes nothing; a request so answered has
\* inserted no row and changed no voteCount.
C8_NotVotingRejected ==
    /\ [](\A x \in Requests :
            (x.op = "cast" /\ x.resp = errorHandler(VotingNotOpen)) =>
                x.rows = 0 /\ ~x.counted /\ ~x.pub)
    /\ [][\A x \in Requests :
            ( /\ x.op = "cast" /\ x.pc = "selCh"
              /\ StatusOf(SubChallenge(x.sub)) # "VOTING"
              /\ Steps(x) )
            => /\ CopiesIn(Throw(x, VotingNotOpen), req')
                     = CopiesIn(Throw(x, VotingNotOpen), req) + 1
               /\ errorHandler(VotingNotOpen).status = 400
               /\ votes' = votes /\ voteCount' = voteCount
               /\ published' = published]_vars

\* C8 witness: a cast was rejected for a competition whose row is gone.
C8_Witness ==
    \E x \in Requests :
        /\ x.op = "cast" /\ x.resp = errorHandler(VotingNotOpen)
        /\ x.sub \in Subs /\ ~chExists[SubChallenge(x.sub)]

\* C9: every step of a vote request that inserts or deletes a vote row or
\* changes voteCount of a submission happens while the submission's
\* competition is VOTING.
C9_MutationOnlyWhileVoting ==
    [][\A s \in Subs :
          ( /\ req' # req
            /\ \/ voteCount'[s] # voteCount[s]
               \/ \E v \in Voters : votes'[<<v, s>>] # votes[<<v, s>>] )
          => StatusOf(SubChallenge(s)) = "VOTING"]_vars

\* C10: a request targeting a disqualified submission inserts or deletes no
\* vote row, changes no voteCount, and is rejected.
C10_DisqualifiedFrozen ==
    \A x \in Requests :
        (x.sub \in Subs /\ subDisq[x.sub]) =>
            /\ x.rows = 0 /\ ~x.counted
            /\ Done(x) => x.resp.status >= 400

\* The records the requests that step in this step move on as.
Gained == {y \in BagToSet(req') : CopiesIn(y, req') > CopiesIn(y, req)}

\* C11: a cast whose INSERT is refused by the unique index (the pair has a row
\* although the pre-check of this request found none) is answered with the
\* status and the error kind of the pre-check's 'already voted' rejection.
C11_RaceLoserGetsDuplicateKind ==
    [][\A x \in Requests :
          ( /\ x.op = "cast" /\ x.pc = "insert"
            /\ x.sub \in Subs /\ subExists[x.sub]
            /\ votes[<<x.voter, x.sub>>] > 0
            /\ Steps(x) )
          => \A y \in Gained :
                /\ Done(y)
                /\ y.resp.status = errorHandler(AlreadyVoted).status
                /\ y.resp.error = errorHandler(AlreadyVoted).error]_vars

\* The five precondition rejections of CastVote, in check order.
CastRejections ==
    << errorHandler(NotFoundError("Submission")),
       errorHandler(BadRequestError("This submission is not ready for voting")),
       errorHandler(BadRequestError("This submission has been disqualified")),
       errorHandler(BadRequestError("Voting is not currently open for this challenge")),
       errorHandler(BadRequestError("You have already voted for this submission")) >>

\* A request arrives in this step.
Arrives == BagCardinality(req') = BagCardinality(req) + 1

\* C12: CastVote reports the lowest-numbered failing check of (1) submission
\* exists, (2) status READY, (3) not disqualified, (4) competition VOTING,
\* (5) no vote of this voter yet, whatever the later checks would find, and
\* the five rejections differ pairwise.
C12_FirstFailingCheckReported ==
    /\ [](\A i, j \in 1..5 : i # j => CastRejections[i] # CastRejections[j])
    /\ [][Arrives =>
            \A y \in Gained :
                y.op = "cast" =>
                    IF ~(y.sub \in Subs /\ subExists[y.sub])
                    THEN Done(y) /\ y.resp = CastRejections[1]
                    ELSE IF subStatus[y.sub] # "READY"
                    THEN Done(y) /\ y.resp = CastRejections[2]
                    ELSE IF subDisq[y.sub]
                    THEN Done(y) /\ y.resp = CastRejections[3]
                    ELSE InFlight(y)]_vars
    /\ [][\A x \in Requests :
            (x.op = "cast" /\ x.pc = "selCh" /\ Steps(x)) =>
                \A y \in Gained :
                    IF StatusOf(SubChallenge(x.sub)) # "VOTING"
                    THEN Done(y) /\ y.resp = CastRejections[4]
                    ELSE InFlight(y)]_vars
    /\ [][\A x \in Requests :
            (x.op = "cast" /\ x.pc = "selVote" /\ Steps(x)) =>
                \A y \in Gained :
                    IF votes[<<x.voter, x.sub>>] > 0
                    THEN Done(y) /\ y.resp = CastRejections[5]
                    ELSE InFlight(y)]_vars

\* C12 witness: a cast was rejected as 'not ready' on a submission that is
\* disqualified too, in a competition that is not VOTING, by a voter who has a
\* vote on it (checks 2 to 5 fail at once).
C12_Witness ==
    \E x \in Requests :
        /\ x.op = "cast" /\ x.resp = CastRejections[2]
        /\ subDisq[x.sub]
        /\ StatusOf(SubChallenge(x.sub)) # "VOTING"
        /\ votes[<<x.voter, x.sub>>] > 0

\* The answers of the precondition checks of CastVote and RetractVote.
PreconditionRejections ==
    {CastRejections[i] : i \in 1..5}
        \cup {errorHandler(BadRequestError("Voting is no longer open for this challenge")),
              errorHandler(BadRequestError("You have not voted for this submission"))}

\* C13: the step in which a CastVote or RetractVote is rejected by a
\* precondition check changes no vote row and no voteCount and publishes
\* nothing; the rejection is a 4xx answer with an error kind and a message;
\* a request so rejected has inserted or deleted no row, changed no counter
\* and published nothing, and it never runs again.
C13_RejectionChangesNothing ==
    /\ [][\A y \in Gained :
            (Done(y) /\ y.resp \in PreconditionRejections) =>
                /\ votes' = votes
                /\ voteCount' = voteCount
                /\ published' = published]_vars
    /\ [](\A x \in Requests :
            (Done(x) /\ x.resp \in PreconditionRejections) =>
                /\ x.resp.status \in 400..499
                /\ x.resp.error \in {"NotFound", "BadRequest"}
                /\ x.resp.message # ""
                /\ x.rows = 0 /\ ~x.counted /\ ~x.pub)
    /\ [][\A x \in Requests :
            (Done(x) /\ x.resp \in PreconditionRejections) =>
                CopiesIn(x, req') >= CopiesIn(x, req)]_vars

\* C13 witness: a retraction was rejected as 'not voted' on a submission that
\* holds another voter's vote, and a cast was rejected as 'already voted'.
C13_Witness ==
    /\ \E x \in Requests :
          /\ x.op = "retract"
          /\ x.resp = errorHandler(BadRequestError("You have not voted for this submission"))
          /\ CountRows(votes, x.sub) > 0
    /\ \E x \in Requests :
          /\ x.op = "cast" /\ x.resp = CastRejections[5]

C15_UnauthenticatedRejected ==
    /\ [](\A x \in Requests :
            /\ (x.cred.kind # "valid" \/ x.cred.userId \notin Voters) =>
                  /\ x.pc \in {"selUser", "done"}
                  /\ Done(x) => x.resp.status = 401
            /\ x.resp.status \in {401, 403} =>
                  /\ x.voter = ""
                  /\ x.rows = 0 /\ ~x.counted /\ ~x.pub
            /\ x.voter \in {"", x.cred.userId})
    /\ [][(Arrives \/ \E x \in Requests : x.pc = "selUser" /\ Steps(x)) =>
            /\ votes' = votes
            /\ voteCount' = voteCount
            /\ published' = published]_vars
    /\ [][\A x \in Requests :
            ( /\ x.pc = "selUser" /\ Steps(x)
              /\ x.cred.userId \in Voters /\ suspended[x.cred.userId] )
            => \A y \in Gained : Done(y) /\ y.resp.status = 403]_vars
    /\ [][\A p \in Voters \X Subs :
            votes'[p] > votes[p] =>
                \E x \in Requests :
                    /\ Steps(x) /\ x.op = "cast"
                    /\ x.cred = [kind |-> "valid", userId |-> p[1]]]_vars

\* C15 witness: a request of a suspended user was answered 403, and a vote
\* was created for the user of a valid token.
C15_Witness ==
    /\ \E x \in Requests :
          x.cred.kind = "valid" /\ x.resp.status = 403 /\ suspended[x.cred.userId]
    /\ \E y \in Requests :
          /\ y.resp = Created /\ y.voter = y.cred.userId
          /\ votes[<<y.voter, y.sub>>] = 1

\* Live-feed request x takes a step.
ConnSteps(x) == CopiesIn(x, conns') < CopiesIn(x, conns)

\* The records the live-feed requests that step in this step move on as.
ConnGained == {y \in BagToSet(conns') : CopiesIn(y, conns') > CopiesIn(y, conns)}

\* The live-feed requests once every open, unclosed connection for the
\* competition of message has been written the message as one data frame.
Forwarded(message) ==
    BagOfAll(LAMBDA x : IF x.pc = "open" /\ ~x.closed /\ x.cid = message.topic
                        THEN [x EXCEPT !.written = Append(@, MessageFrame(message))]
                        ELSE x,
             conns)

\* The message published in this step, as a set (empty: none).
Published == {published'[i] : i \in (Len(published) + 1)..Len(published')}

\* C16: every message published for competition C is written verbatim, as
\* one data frame, to every live-feed connection that is open for C, and to
\* no other connection; no connection ever holds a frame of a message
\* published for another competition.
C16_EventsForwarded ==
    /\ [][\A m \in Published : conns' = Forwarded(m)]_vars
    /\ [](\A x \in Conns : \A k \in 1..Len(x.written) : \A i \in 1..Len(published) :
            x.written[k] = MessageFrame(published[i]) => published[i].topic = x.cid)

\* C17: nothing is written to a connection after it closed, and once the
\* handler of a closed connection has returned and no quit is pending, the
\* connection's subscriber is quit and its heartbeat timer cleared.
C17_CleanupGuaranteed ==
    \A x \in Conns :
        /\ ~x.late
        /\ (x.closed /\ x.pc \in {"open", "ended"} /\ x.subscriber # "quitting")
              => x.subscriber = "quit" /\ ~x.timer

\* C18: a live-feed request without challengeId is answered 400 and has no
\* subscriber and no timer, ever; a request with a challengeId has the
\* connected event of that id as its first frame from its arrival on, and no
\* later frame is a connected event.
C18_ConnectedFirstOnce ==
    \A x \in Conns :
        IF x.cid = NoChallenge
        THEN /\ x.status = 400
             /\ x.subscriber = "none" /\ ~x.timer
             /\ x.written = <<>>
        ELSE /\ x.status = 200
             /\ Len(x.written) >= 1
             /\ x.written[1] = ConnectedFrame(x.cid)
             /\ \A i \in 2..Len(x.written) :
                   x.written[i] \notin {ConnectedFrame(c) : c \in Challenges}

\* C18 witness: a request was rejected for its missing challengeId, and on
\* another connection a data frame and a keep-alive followed the connected
\* event.
C18_Witness ==
    /\ \E x \in Conns : x.cid = NoChallenge /\ x.status = 400
    /\ \E x \in Conns :
          /\ Len(x.written) >= 3
          /\ \E i \in 2..Len(x.written) : x.written[i] = HeartbeatFrame

\* C19: the step in which the subscriber setup of a connection fails ends
\* that connection and changes no other connection, no vote request, no
\* table and no published message; and while a connection has so failed,
\* votes still publish and every message published reaches every other
\* connection open for its competition.
C19_SetupFailureIsolated ==
    /\ [][\A x \in Conns :
            (x.pc \in {"connect", "subscribe"} /\ ConnSteps(x)) =>
                \A y \in ConnGained :
                    y.pc = "ended" =>
                        /\ conns' = (conns (-) SetToBag({x})) (+) SetToBag({y})
                        /\ req' = req
                        /\ published' = published
                        /\ votes' = votes /\ voteCount' = voteCount]_vars
    /\ [][(\E z \in Conns : z.pc = "ended") =>
            /\ \A y \in Gained : y.resp \in {Created, Removed} => Published # {}
            /\ \A m \in Published :
                  \A x \in Conns :
                      (x.pc = "open" /\ ~x.closed /\ x.cid = m.topic) =>
                          \E y \in BagToSet(conns') :
                              /\ y.cid = x.cid
                              /\ Len(y.written) > 0
                              /\ y.written[Len(y.written)] = MessageFrame(m)]_vars

\* C20: the heartbeat timer of a connection runs only while the connection
\* is subscribed and not closed, and every tick writes one keep-alive line
\* to the connection, whatever the vote traffic.
C20_KeepAliveWhileOpen ==
    /\ [](\A x \in Conns :
            x.timer => x.subscriber = "subscribed" /\ ~x.closed)
    /\ [][\A x \in Conns :
            (x.timer /\ ConnSteps(x)) =>
                \A y \in ConnGained :
                    y.closed = x.closed =>
                        y.written = Append(x.written, HeartbeatFrame)]_vars

\* ---------------------------------------------------------------- C26

\* The requests on submission s.
RequestsOn(s) == {x \in Requests : x.sub = s}

\* Every request on s is a cast of a voter who had no vote on s, no voter
\* sent two, all have been answered, and s is eligible in an open competition
\* (no phase change leads back to VOTING, so it was eligible all along).
ConcurrentCastsOnly(s) ==
    /\ Quiescent
    /\ CastSubmissionCheck(s) = "ok" /\ VotingOpen(SubChallenge(s))
    /\ \A x \in RequestsOn(s) :
           /\ x.op = "cast" /\ votes0[<<x.voter, s>>] = 0
           /\ CopiesIn(x, req) = 1
           /\ \A y \in RequestsOn(s) : y.voter = x.voter => y = x

\* C26: when K distinct voters without a vote concurrently cast on one eligible
\* submission and nobody retracts, every request succeeds, vote_count ends at
\* initial + K, and the counts returned are exactly initial+1 .. initial+K.
C26_NoLostUpdates ==
    \A s \in Subs :
        ConcurrentCastsOnly(s) =>
            LET K == Cardinality(RequestsOn(s))
                initial == CountRows(votes0, s)
            IN /\ \A x \in RequestsOn(s) : x.resp = Created
               /\ voteCount[s] = initial + K
               /\ {x.newCount : x \in RequestsOn(s)} = (initial + 1)..(initial + K)

\* Both voters cast on s2 at once and both were answered.
C26_Witness ==
    /\ ConcurrentCastsOnly("s2")
    /\ Cardinality(RequestsOn("s2")) = 2
    /\ voteCount["s2"] = 2

\* ---------------------------------------------------------------- C27

Succeeded(x) == x.resp \in {Created, Removed}

\* The event a request is to publish: its submission, the vote_count its own
\* UPDATE returned (the one it answers with), and its action.
EventOf(x) == VoteEvent(x.sub, x.newCount, IF x.op = "cast" THEN "add" ELSE "remove")

\* How many times event e is in the published sequence.
Occurrences(e) == Cardinality({i \in 1..Len(published) : published[i] = e})

\* C27: every successful cast or retraction has published exactly one event,
\* on the topic of the submission's competition, with its submission id, its
\* action and the vote_count returned to the caller, which its own UPDATE
\* produced; a request that did not change vote_count has published nothing.
C27_OneEventPerSuccess ==
    /\ \A x \in Requests : Succeeded(x) => x.pub
    /\ \A x \in Requests : x.pub => x.counted
    /\ \A e \in {published[i] : i \in 1..Len(published)}
                \cup {EventOf(x) : x \in {y \in Requests : y.pub}} :
           Occurrences(e) = Num({x \in Requests : x.pub /\ EventOf(x) = e})

\* Two casts on s2 succeeded, and the one whose UPDATE ran first published last.
C27_Witness ==
    /\ Num(SuccessfulCasts("s2")) = 2
    /\ published = <<VoteEvent("s2", 2, "add"), VoteEvent("s2", 1, "add")>>

\* ---------------------------------------------------------------- C28

\* The positions of the events of submission s in the published sequence.
EventsOf(s) == {i \in 1..Len(published) : published[i].submissionId = s}

\* The last event published for s.
LastEvent(s) == published[CHOOSE i \in EventsOf(s) : \A j \in EventsOf(s) : j <= i]

\* C28: the events of one submission are published in the order in which
\* their UPDATEs ran, so once every request has been answered the last event
\* published for a submission carries its stored vote_count.
C28_LastEventIsStoredCount ==
    \A s \in Subs :
        (Quiescent /\ subExists[s] /\ EventsOf(s) # {}) =>
            LastEvent(s).voteCount = voteCount[s]

\* ---------------------------------------------------------------- C29

\* Live-feed request x has been sent the connected event of its competition,
\* has not disconnected, and its handler is setting up or serving the feed.
Acknowledged(x) ==
    /\ x.cid # NoChallenge /\ ~x.closed
    /\ Len(x.written) >= 1 /\ x.written[1] = ConnectedFrame(x.cid)
    /\ x.pc \in {"connect", "subscribe", "open"}

\* C29: from the connected event on and until the client disconnects, every
\* event published for the competition of a live-feed connection is written
\* to that connection, also while its subscription is still being set up.
C29_NoEventMissedAfterConnected ==
    [][\A m \in Published : \A x \in Conns :
          (Acknowledged(x) /\ x.cid = m.topic) =>
              CopiesIn([x EXCEPT !.written = Append(@, MessageFrame(m))], conns')
                  >= CopiesIn(x, conns)]_vars

\* ---------------------------------------------------------------- C21

\* The leaderboard requests answered with a leaderboard.
Boards == {x \in BoardRequests : x.pc = "done" /\ x.resp = BoardSent}

\* The submission ids of the entries of leaderboard b.
Listed(b) == {b[i].id : i \in 1..Len(b)}

\* C21: a leaderboard of competition C holds only READY, non-disqualified
\* submissions of C, at most Limit of them, by non-increasing vote_count, no
\* eligible submission is left out in favour of one with strictly fewer
\* votes, and the entry at position i has rank i.
C21_LeaderboardContents ==
    \A x \in Boards :
        LET b == x.leaderboard
        IN /\ Len(b) <= Limit
           /\ \A i \in 1..Len(b) :
                  /\ b[i].id \in DOMAIN subExists /\ subExists[b[i].id]
                  /\ SubChallenge(b[i].id) = x.cid
                  /\ subStatus[b[i].id] = "READY" /\ ~subDisq[b[i].id]
                  /\ b[i].voteCount = voteCount[b[i].id]
                  /\ b[i].rank = i
           /\ \A i, j \in 1..Len(b) : i < j => b[i].voteCount >= b[j].voteCount
           /\ \A s \in DOMAIN subExists : \A i \in 1..Len(b) :
                  ( /\ s \notin Listed(b) /\ subExists[s] /\ SubChallenge(s) = x.cid
                    /\ subStatus[s] = "READY" /\ ~subDisq[s] )
                  => voteCount[s] <= b[i].voteCount

\* A leaderboard of c2 that the limit cut, with entries of different counts,
\* leaving out an eligible submission with fewer votes than any entry.
C21_Witness ==
    \E x \in Boards :
        /\ x.cid = "c2" /\ Len(x.leaderboard) = Limit
        /\ x.leaderboard[1].voteCount > x.leaderboard[Limit].voteCount
        /\ \E s \in Eligible("c2") \ Listed(x.leaderboard) :
               voteCount[s] < x.leaderboard[Limit].voteCount

\* ---------------------------------------------------------------- C22

\* Sum of the voteCount fields of the entries of leaderboard b.
RECURSIVE SumOfEntries(_)
SumOfEntries(b) == IF b = <<>> THEN 0 ELSE Head(b).voteCount + SumOfEntries(Tail(b))

\* round(n / d) for n >= 0, d > 0: the nearest integer, a tie upwards.
Rounded(n, d) == (2 * n + d) \div (2 * d)

\* C22: totalVotes is the sum of voteCount over the returned entries, each
\* votePercentage is round(voteCount * 1000 / totalVotes) / 10, or 0 when
\* totalVotes is 0 (percentages in tenths here), and vote counts 30, 20, 10
\* give 50.0, 33.3, 16.7 with ranks 1, 2, 3.
C22_TotalsAndPercentages ==
    \A x \in Boards :
        LET b == x.leaderboard
        IN /\ x.totalVotes = SumOfEntries(b)
           /\ \A i \in 1..Len(b) :
                  b[i].votePercentage =
                      IF x.totalVotes > 0
                      THEN Rounded(b[i].voteCount * 1000, x.totalVotes) ELSE 0
           /\ [i \in 1..Len(b) |-> b[i].voteCount] = <<30, 20, 10>>
                  => /\ [i \in 1..Len(b) |-> b[i].votePercentage] = <<500, 333, 167>>
                     /\ [i \in 1..Len(b) |-> b[i].rank] = <<1, 2, 3>>

\* ---------------------------------------------------------------- C23

\* Sum of the votePercentage fields (tenths of a percent) of the entries of b.
RECURSIVE SumOfPercentages(_)
SumOfPercentages(b) ==
    IF b = <<>> THEN 0 ELSE Head(b).votePercentage + SumOfPercentages(Tail(b))

\* C23: the percentages of a leaderboard, each rounded to one decimal, sum to
\* at most 100 (1000 tenths), and all are 0 when the total of votes is 0.
C23_PercentagesAtMostHundred ==
    \A x \in Boards :
        /\ SumOfPercentages(x.leaderboard) <= 1000
        /\ x.totalVotes = 0 =>
               \A i \in 1..Len(x.leaderboard) : x.leaderboard[i].votePercentage = 0

\* ---------------------------------------------------------------- C24

\* C24: on a store nobody writes to, any two leaderboard queries for the same
\* competition return the same entries in the same order with the same rank
\* and votePercentage, also with equal vote counts and with more eligible
\* submissions than the limit.
C24_LeaderboardDeterministic ==
    \A x, y \in Boards :
        x.cid = y.cid => x.leaderboard = y.leaderboard /\ x.totalVotes = y.totalVotes

\* ---------------------------------------------------------------- C25

\* C25: a step of a leaderboard request changes no vote row, no vote_count,
\* no submission or challenge field and publishes nothing; a request for an
\* existing competition, in any status, is answered with a leaderboard (its
\* query always has a result), and a request for a competition that does not
\* exist is answered NotFound.
C25_LeaderboardReadOnly ==
    /\ [][lreq' # lreq =>
             UNCHANGED <<dbVars, votes0, published, conns, submissionCount>>]_vars
    /\ [](\A x \in BoardRequests :
             IF x.cid \in Challenges /\ chExists[x.cid]
             THEN \/ x.pc = "selBoard" /\ LeaderboardQuery(x.cid) # {}
                  \/ x.pc = "done" /\ x.resp = BoardSent
             ELSE /\ x.pc = "done"
                  /\ x.resp = [status |-> 404, error |-> "NotFound",
                               message |-> "Challenge not found"])

\* A leaderboard was answered for a competition that is not in VOTING, and a
\* request for a competition that does not exist was answered.
C25_Witness ==
    /\ chStatus["c2"] = "DRAFT"
    /\ \E x \in Boards : x.cid = "c2" /\ Len(x.leaderboard) > 0
    /\ \E x \in BoardRequests : x.cid = NoChallengeRow /\ x.pc = "done"

\* ---------------------------------------------------------------- C30

\* C30: once every submission request has been answered, submissionCount of
\* every challenge is the number of its submission rows, and it is never
\* negative.
C30_SubmissionCountMatchesRows ==
    \A c \in Challenges :
        /\ submissionCount[c] >= 0
        /\ (\A x \in SubmissionRequests : x.pc = "done")
              => submissionCount[c] = SubmissionCount(c)

====
